---- MODULE Spec2Model ----
(***************************************************************************)
(* Image-to-PDF: the App component (upload, reorder, export), the          *)
(* ImageUploader's file filter and generatePdf with the jsPDF document it  *)
(* drives.                                                                 *)
(*                                                                         *)
(* Lengths are exact rationals in millimetres, [n |-> numerator,           *)
(* d |-> denominator] in lowest terms with d > 0.  The JavaScript value    *)
(* NaN (0/0, and anything computed from it) is [n |-> 0, d |-> 0].         *)
(* Rounding of IEEE doubles is not modelled: a JavaScript number is the    *)
(* rational it approximates.                                               *)
(***************************************************************************)
EXTENDS Integers, Sequences, FiniteSets, TLC

(* ------------------------------ bounds -------------------------------- *)
\* Pixel widths and heights 1..MaxDim are drawn for the images of LayoutSpec.
MaxDim == 4
\* At most MaxUploads images are ever created (ids 1..MaxUploads).
MaxUploads == 2
\* At most MaxEdits changes of the settings through the panel.
MaxEdits == 1
\* At most MaxExports clicks on Export.
MaxExports == 1
\* The image lists of PdfSpec have at most MaxPages images.
MaxPages == 2

(* ------------------------- rational arithmetic ------------------------ *)
RECURSIVE Gcd(_, _)
Gcd(a, b) == IF b = 0 THEN a ELSE Gcd(b, a % b)

Abs(a) == IF a < 0 THEN -a ELSE a

NaN == [n |-> 0, d |-> 0]

IsNaN(a) == a.d = 0

\* The number n/d (d # 0) in lowest terms.
Frac(n, d) ==
  LET g == Gcd(Abs(n), Abs(d))
      s == IF d < 0 THEN -1 ELSE 1
  IN  [n |-> s * (n \div g), d |-> s * (d \div g)]

Num(k) == [n |-> k, d |-> 1]

\* a.n/a.d and b.n/b.d over their least common denominator.
OverCommon(a, b) ==
  LET g == Gcd(a.d, b.d)
  IN  [an |-> a.n * (b.d \div g), bn |-> b.n * (a.d \div g),
       d |-> (a.d \div g) * b.d]

RAdd(a, b) == IF IsNaN(a) \/ IsNaN(b) THEN NaN
              ELSE LET c == OverCommon(a, b) IN Frac(c.an + c.bn, c.d)

RSub(a, b) == IF IsNaN(a) \/ IsNaN(b) THEN NaN
              ELSE LET c == OverCommon(a, b) IN Frac(c.an - c.bn, c.d)

RMul(a, b) == IF IsNaN(a) \/ IsNaN(b) THEN NaN
              ELSE LET g1 == Gcd(Abs(a.n), b.d)
                       g2 == Gcd(Abs(b.n), a.d)
                   IN  Frac((a.n \div g1) * (b.n \div g2),
                            (a.d \div g2) * (b.d \div g1))

\* JavaScript division; 0/0 is NaN.  A non-zero number is never divided by
\* zero here: an image has both dimensions 0 (not yet probed) or both
\* positive, and the drawable height of a standard page is positive.
RDiv(a, b) == IF IsNaN(a) \/ IsNaN(b) \/ b.n = 0 THEN NaN
              ELSE RMul(a, Frac(b.d, b.n))

\* JavaScript comparisons: false when either side is NaN.
RGt(a, b) == ~IsNaN(a) /\ ~IsNaN(b) /\
             LET c == OverCommon(a, b) IN c.an > c.bn
RLt(a, b) == RGt(b, a)

(* ------------------------------- types -------------------------------- *)
PageSizes == {"A4", "LETTER", "FIT_IMAGE"}
PageOrientations == {"p", "l", "auto"}
\* The settings panel offers CONTAIN and FILL; ORIGINAL is commented out.
ImageFits == {"CONTAIN", "FILL"}

MinMargin == 0
MaxMargin == 50

DEFAULT_SETTINGS ==
  [pageSize |-> "A4", orientation |-> "auto", margin |-> 10,
   imageFit |-> "CONTAIN", filename |-> "images.pdf"]

(* ---------------------------- generatePdf ----------------------------- *)
A4_WIDTH == Num(210)
A4_HEIGHT == Num(297)
LETTER_WIDTH == Frac(2159, 10)
LETTER_HEIGHT == Frac(2794, 10)

\* const pxToMm = 0.264583
pxToMm == Frac(264583, 1000000)

\* The nominal page of the page-size branch: width, height and the format
\* handed to jsPDF (a name, or "custom" for the array [pageWidth, pageHeight]).
NominalPage(img, settings) ==
  IF settings.pageSize = "FIT_IMAGE"
    THEN [pageWidth |-> RMul(Num(img.width), pxToMm),
          pageHeight |-> RMul(Num(img.height), pxToMm),
          targetFormat |-> "custom"]
  ELSE IF settings.pageSize = "LETTER"
    THEN [pageWidth |-> LETTER_WIDTH, pageHeight |-> LETTER_HEIGHT,
          targetFormat |-> "letter"]
    ELSE [pageWidth |-> A4_WIDTH, pageHeight |-> A4_HEIGHT,
          targetFormat |-> "a4"]

\* ResolveOrientation with >= for >: a square image counts as landscape.
ResolveOrientation_SquareLandscape(img, settings) ==
  IF settings.orientation = "auto"
    THEN (IF img.width >= img.height THEN "l" ELSE "p")
    ELSE (IF settings.orientation = "l" THEN "l" ELSE "p")

\* let orientation: "p" | "l"
ResolveOrientation(img, settings) ==
  IF settings.orientation = "auto"
    THEN (IF img.width > img.height THEN "l" ELSE "p")
    ELSE (IF settings.orientation = "l" THEN "l" ELSE "p")

\* pageWidth, pageHeight, targetFormat and orientation after the swap.
PageOf(img, settings) ==
  LET nom == NominalPage(img, settings)
      orientation == ResolveOrientation(img, settings)
      swap ==
        IF settings.orientation = "auto"
          THEN settings.pageSize # "FIT_IMAGE" /\ orientation = "l"
          ELSE /\ settings.pageSize # "FIT_IMAGE"
               /\ orientation = "l"
               /\ RLt(nom.pageWidth, nom.pageHeight)
  IN  [pageWidth |-> IF swap THEN nom.pageHeight ELSE nom.pageWidth,
       pageHeight |-> IF swap THEN nom.pageWidth ELSE nom.pageHeight,
       targetFormat |-> nom.targetFormat,
       orientation |-> orientation]

\* ContainRect with the ratio test turned round: the image is scaled to the
\* axis it overflows.
ContainRect_WrongAxis(img, margin, drawWidth, drawHeight) ==
  LET imgRatio == RDiv(Num(img.width), Num(img.height))
      pageRatio == RDiv(drawWidth, drawHeight)
  IN  IF RLt(imgRatio, pageRatio)
        THEN LET h == RDiv(drawWidth, imgRatio)
             IN  [x |-> margin,
                  y |-> RAdd(margin, RDiv(RSub(drawHeight, h), Num(2))),
                  w |-> drawWidth, h |-> h]
        ELSE LET w == RMul(drawHeight, imgRatio)
             IN  [x |-> RAdd(margin, RDiv(RSub(drawWidth, w), Num(2))),
                  y |-> margin,
                  w |-> w, h |-> drawHeight]

\* The CONTAIN branch: scale to fit the drawable area, centred.
ContainRect(img, margin, drawWidth, drawHeight) ==
  LET imgRatio == RDiv(Num(img.width), Num(img.height))
      pageRatio == RDiv(drawWidth, drawHeight)
  IN  IF RGt(imgRatio, pageRatio)
        THEN LET h == RDiv(drawWidth, imgRatio)
             IN  [x |-> margin,
                  y |-> RAdd(margin, RDiv(RSub(drawHeight, h), Num(2))),
                  w |-> drawWidth, h |-> h]
        ELSE LET w == RMul(drawHeight, imgRatio)
             IN  [x |-> RAdd(margin, RDiv(RSub(drawWidth, w), Num(2))),
                  y |-> margin,
                  w |-> w, h |-> drawHeight]

\* ImageRect without the FIT_IMAGE branch: margin and imageFit apply to
\* every page size.
ImageRect_NoFitBranch(img, settings, pageWidth, pageHeight) ==
  LET margin == Num(settings.margin)
      drawWidth == RSub(pageWidth, RMul(margin, Num(2)))
      drawHeight == RSub(pageHeight, RMul(margin, Num(2)))
  IN  IF settings.imageFit = "CONTAIN"
        THEN ContainRect(img, margin, drawWidth, drawHeight)
        ELSE [x |-> margin, y |-> margin, w |-> drawWidth, h |-> drawHeight]

\* ImageRect that keeps the aspect ratio under FILL as well.
ImageRect_FillKeepsRatio(img, settings, pageWidth, pageHeight) ==
  LET margin == Num(settings.margin)
      drawWidth == RSub(pageWidth, RMul(margin, Num(2)))
      drawHeight == RSub(pageHeight, RMul(margin, Num(2)))
  IN  IF settings.pageSize = "FIT_IMAGE"
        THEN [x |-> Num(0), y |-> Num(0), w |-> pageWidth, h |-> pageHeight]
        ELSE ContainRect(img, margin, drawWidth, drawHeight)

\* ImageRect that takes the margin off five times instead of twice.
ImageRect_MarginFiveTimes(img, settings, pageWidth, pageHeight) ==
  LET margin == Num(settings.margin)
      drawWidth == RSub(pageWidth, RMul(margin, Num(5)))
      drawHeight == RSub(pageHeight, RMul(margin, Num(5)))
  IN  IF settings.pageSize = "FIT_IMAGE"
        THEN [x |-> Num(0), y |-> Num(0), w |-> pageWidth, h |-> pageHeight]
      ELSE IF settings.imageFit = "CONTAIN"
        THEN ContainRect(img, margin, drawWidth, drawHeight)
        ELSE [x |-> margin, y |-> margin, w |-> drawWidth, h |-> drawHeight]

\* x, y, w, h of the image on a page of pageWidth x pageHeight.
ImageRect(img, settings, pageWidth, pageHeight) ==
  LET margin == Num(settings.margin)
      drawWidth == RSub(pageWidth, RMul(margin, Num(2)))
      drawHeight == RSub(pageHeight, RMul(margin, Num(2)))
  IN  IF settings.pageSize = "FIT_IMAGE"
        THEN [x |-> Num(0), y |-> Num(0), w |-> pageWidth, h |-> pageHeight]
      ELSE IF settings.imageFit = "CONTAIN"
        THEN ContainRect(img, margin, drawWidth, drawHeight)
        ELSE [x |-> margin, y |-> margin, w |-> drawWidth, h |-> drawHeight]

\* img.type === 'image/png' ? 'PNG' : 'JPEG'
FormatLabel(img) == IF img.type = "image/png" THEN "PNG" ELSE "JPEG"

(* ------------------------- the jsPDF document ------------------------- *)
\* A document is [pages, currentPage]; a page is its physical width and
\* height, the format and orientation it was created with, and the images
\* drawn on it.  Page numbers start at 1; currentPage is 0 with no page.

\* new jsPDF({orientation: 'p', unit: 'mm', format: 'a4', compress: false})
NewJsPDF ==
  [pages |-> << [width |-> A4_WIDTH, height |-> A4_HEIGHT, format |-> "a4",
                 orientation |-> "p", images |-> << >>] >>,
   currentPage |-> 1]

\* doc.addPage(format, orientation): the page takes the size of the named
\* format, or of the array [width, height]; jsPDF swaps the two when they
\* contradict the orientation.  The new page becomes the current page.
AddPage(doc, format, width, height, orientation) ==
  LET fw == IF format = "a4" THEN A4_WIDTH
            ELSE IF format = "letter" THEN LETTER_WIDTH ELSE width
      fh == IF format = "a4" THEN A4_HEIGHT
            ELSE IF format = "letter" THEN LETTER_HEIGHT ELSE height
      swap == \/ orientation = "l" /\ RGt(fh, fw)
              \/ orientation = "p" /\ RGt(fw, fh)
      page == [width |-> IF swap THEN fh ELSE fw,
               height |-> IF swap THEN fw ELSE fh,
               format |-> format, orientation |-> orientation,
               images |-> << >>]
  IN  [pages |-> Append(doc.pages, page),
       currentPage |-> Len(doc.pages) + 1]

\* doc.deletePage(n)
DeletePage(doc, n) ==
  IF n > 0 /\ n <= Len(doc.pages)
    THEN LET left == [k \in 1..(Len(doc.pages) - 1) |->
                        IF k < n THEN doc.pages[k] ELSE doc.pages[k + 1]]
         IN  [pages |-> left,
              currentPage |-> IF doc.currentPage > Len(left) THEN Len(left)
                              ELSE doc.currentPage]
    ELSE doc

\* doc.addImage(src, label, x, y, w, h, ...) draws on the current page.
\* jsPDF throws on NaN coordinates; AddImageThrows is that test.
AddImageThrows(rect) == IsNaN(rect.x) \/ IsNaN(rect.y)

AddImage(doc, src, type, label, rect) ==
  LET draw == [src |-> src, type |-> type, label |-> label,
               x |-> rect.x, y |-> rect.y, w |-> rect.w, h |-> rect.h]
  IN  [doc EXCEPT !.pages[doc.currentPage].images = Append(@, draw)]

\* The page step of one loop iteration (i is the 0-based loop index).
PageStep(doc, i, img, settings, page) ==
  IF i > 0
    THEN AddPage(doc, page.targetFormat, page.pageWidth, page.pageHeight,
                 page.orientation)
  ELSE IF settings.pageSize = "FIT_IMAGE"
    THEN LET w == RMul(Num(img.width), pxToMm)
             h == RMul(Num(img.height), pxToMm)
         IN  AddPage(DeletePage(doc, 1), "custom", w, h,
                     IF RGt(w, h) THEN "l" ELSE "p")
  ELSE IF page.orientation # "p"
    THEN AddPage(DeletePage(doc, 1), page.targetFormat, page.pageWidth,
                 page.pageHeight, page.orientation)
    ELSE doc

\* The values one loop iteration computes for image number i (0-based).
LayoutOf(i, img, settings) ==
  LET page == PageOf(img, settings)
      rect == ImageRect(img, settings, page.pageWidth, page.pageHeight)
  IN  [pageWidthMm |-> page.pageWidth, pageHeightMm |-> page.pageHeight,
       orientation |-> page.orientation,
       imageX |-> rect.x, imageY |-> rect.y,
       imageWidthMm |-> rect.w, imageHeightMm |-> rect.h,
       sourceImageIndex |-> i]

\* settings.filename || 'images.pdf'
SaveName(settings) ==
  IF settings.filename = "" THEN "images.pdf" ELSE settings.filename

\* The for loop of generatePdf from iteration i on, then doc.save.
RECURSIVE PdfLoop(_, _, _, _, _)
PdfLoop(imgs, settings, i, doc, layouts) ==
  IF i >= Len(imgs)
    THEN [called |-> TRUE, images |-> imgs, settings |-> settings,
          doc |-> doc, layouts |-> layouts, threw |-> FALSE,
          saved |-> TRUE, savedAs |-> SaveName(settings)]
    ELSE LET img == imgs[i + 1]
             page == PageOf(img, settings)
             rect == ImageRect(img, settings, page.pageWidth, page.pageHeight)
             doc1 == PageStep(doc, i, img, settings, page)
             lay1 == Append(layouts, LayoutOf(i, img, settings))
         IN  IF AddImageThrows(rect)
               THEN [called |-> TRUE, images |-> imgs, settings |-> settings,
                     doc |-> doc1, layouts |-> lay1, threw |-> TRUE,
                     saved |-> FALSE, savedAs |-> ""]
               ELSE PdfLoop(imgs, settings, i + 1,
                            AddImage(doc1, img.id, img.type, FormatLabel(img),
                                     rect),
                            lay1)

EmptyDoc == [pages |-> << >>, currentPage |-> 0]

\* No call of generatePdf has been made.
NoPdf ==
  [called |-> FALSE, images |-> << >>, settings |-> DEFAULT_SETTINGS,
   doc |-> EmptyDoc, layouts |-> << >>, threw |-> FALSE, saved |-> FALSE,
   savedAs |-> ""]

\* GeneratePdf without the early return on an empty list.
GeneratePdf_NoEmptyReturn(imgs, settings) ==
  PdfLoop(imgs, settings, 0, NewJsPDF, << >>)

\* generatePdf(images, settings): what the call leaves behind.
GeneratePdf(imgs, settings) ==
  IF Len(imgs) = 0
    THEN [NoPdf EXCEPT !.called = TRUE, !.settings = settings]
    ELSE PdfLoop(imgs, settings, 0, NewJsPDF, << >>)

(* ------------------------------ the App ------------------------------- *)
VARIABLES
  images,        \* useState<UploadedImage[]>: the ordered image list
  settings,      \* useState<PdfSettings>
  isProcessing,  \* useState(false)
  pendingLoad,   \* ids of the images whose Image.onload has not fired yet
  created,       \* number of UploadedImage objects created so far (ids)
  timers,        \* callbacks set by setTimeout, each with the images and
                 \* settings of the render that created it
  exports,       \* number of clicks on Export so far
  edits,         \* number of updateField calls so far
  pdf,           \* what the last call of generatePdf did (NoPdf: no call yet)
  firstImageBase64,  \* useState<string | undefined>: the id of the image
                     \* whose file was read, 0 for undefined
  isGeneratingName,  \* SettingsPanel's useState(false)
  nameRequests   \* generateSmartFilename calls in flight, each with the
                 \* settings of the render whose handleAutoName made it

vars == <<images, settings, isProcessing, pendingLoad, created, timers,
          exports, edits, pdf, firstImageBase64, isGeneratingName,
          nameRequests>>

\* The state of the file name assistant.
nameVars == <<firstImageBase64, isGeneratingName, nameRequests>>

\* A File is its mime type and the pixel size its content decodes to.
ValidImageTypes == {"image/jpeg", "image/png", "image/webp", "image/jpg"}

\* The files a user drops on the App in Spec.
AppFiles ==
  {[type |-> "image/jpeg", width |-> 2, height |-> 1],
   [type |-> "image/png", width |-> 1, height |-> 2],
   [type |-> "image/webp", width |-> 1, height |-> 1],
   [type |-> "image/gif", width |-> 1, height |-> 1]}

\* Every sequence over S of length 1..n.
SeqsUpTo(S, n) == UNION {[1..k -> S] : k \in 1..n}

\* files.filter(file => validImageTypes.includes(file.type))
RECURSIVE FilterValid(_)
FilterValid(files) ==
  IF files = << >> THEN << >>
  ELSE IF Head(files).type \in ValidImageTypes
    THEN <<Head(files)>> \o FilterValid(Tail(files))
    ELSE FilterValid(Tail(files))

\* handleUpload's files.map: one UploadedImage per file, dimensions 0 until
\* its onload.  Ids are fresh: firstId, firstId + 1, ...  The id also stands
\* for the image's previewUrl.
NewImages(files, firstId) ==
  [k \in 1..Len(files) |->
     [id |-> firstId + k - 1, file |-> files[k], width |-> 0, height |-> 0,
      type |-> files[k].type]]

\* ImageUploader.handleFiles(files), with App.handleUpload as onUpload.
\* With no valid file it shows an alert and changes nothing.
HandleFiles(files) ==
  LET validFiles == FilterValid(files)
  IN  /\ created + Len(validFiles) <= MaxUploads
      /\ IF Len(validFiles) > 0
           THEN /\ images' = images \o NewImages(validFiles, created + 1)
                /\ pendingLoad' =
                     pendingLoad \cup
                       ((created + 1)..(created + Len(validFiles)))
                /\ created' = created + Len(validFiles)
           ELSE UNCHANGED <<images, pendingLoad, created>>
      /\ UNCHANGED <<settings, isProcessing, timers, exports, edits, pdf>>
      /\ UNCHANGED nameVars

\* img.onload of the image created with this id.
OnLoad(id) ==
  /\ id \in pendingLoad
  /\ pendingLoad' = pendingLoad \ {id}
  /\ images' = [k \in 1..Len(images) |->
                  IF images[k].id = id
                    THEN [images[k] EXCEPT !.width = images[k].file.width,
                                           !.height = images[k].file.height]
                    ELSE images[k]]
  /\ UNCHANGED <<settings, isProcessing, created, timers, exports, edits,
                 pdf>>
  /\ UNCHANGED nameVars

\* prev.filter(i => i.id !== id)
RECURSIVE WithoutId(_, _)
WithoutId(imgs, id) ==
  IF imgs = << >> THEN << >>
  ELSE IF Head(imgs).id # id
    THEN <<Head(imgs)>> \o WithoutId(Tail(imgs), id)
    ELSE WithoutId(Tail(imgs), id)

RemoveImage(id) ==
  /\ \E k \in 1..Len(images) : images[k].id = id
  /\ images' = WithoutId(images, id)
  /\ UNCHANGED <<settings, isProcessing, pendingLoad, created, timers,
                 exports, edits, pdf>>
  /\ UNCHANGED nameVars

\* MoveImage that copies the neighbour over the entry without putting the
\* entry in the neighbour's place.
MoveImage_Overwrite(index, direction) ==
  LET targetIndex == IF direction = "left" THEN index - 1 ELSE index + 1
  IN  /\ index \in 0..(Len(images) - 1)
      /\ IF targetIndex >= 0 /\ targetIndex < Len(images)
           THEN images' = [images EXCEPT ![index + 1] = images[targetIndex + 1]]
           ELSE UNCHANGED images
      /\ UNCHANGED <<settings, isProcessing, pendingLoad, created, timers,
                     exports, edits, pdf>>
      /\ UNCHANGED nameVars

\* moveImage(index, direction), index 0-based.
MoveImage(index, direction) ==
  LET targetIndex == IF direction = "left" THEN index - 1 ELSE index + 1
  IN  /\ index \in 0..(Len(images) - 1)
      /\ IF targetIndex >= 0 /\ targetIndex < Len(images)
           THEN images' = [images EXCEPT ![index + 1] = images[targetIndex + 1],
                                         ![targetIndex + 1] = images[index + 1]]
           ELSE UNCHANGED images
      /\ UNCHANGED <<settings, isProcessing, pendingLoad, created, timers,
                     exports, edits, pdf>>
      /\ UNCHANGED nameVars

\* The values the settings panel's controls send for each field in Spec.
FieldValues(key) ==
  CASE key = "pageSize" -> PageSizes
    [] key = "orientation" -> PageOrientations
    [] key = "imageFit" -> ImageFits
    [] key = "margin" -> {MinMargin, MaxMargin}

\* updateField(key, value) from a control of the settings panel.  The
\* orientation, image-fit and margin controls are rendered only while the
\* page size is not FIT_IMAGE.
UpdateField(key, value) ==
  /\ key \in {"pageSize", "orientation", "imageFit", "margin"}
  /\ value \in FieldValues(key)
  /\ key # "pageSize" => settings.pageSize # "FIT_IMAGE"
  /\ edits < MaxEdits
  /\ edits' = edits + 1
  /\ settings' = [settings EXCEPT ![key] = value]
  /\ UNCHANGED <<images, isProcessing, pendingLoad, created, timers, exports,
                 pdf>>
  /\ UNCHANGED nameVars

\* handleDownload: the Export button is disabled while there is no image
\* or isProcessing.
HandleDownload ==
  /\ Len(images) > 0
  /\ ~isProcessing
  /\ exports < MaxExports
  /\ exports' = exports + 1
  /\ isProcessing' = TRUE
  /\ timers' = Append(timers, [images |-> images, settings |-> settings])
  /\ UNCHANGED <<images, settings, pendingLoad, created, edits, pdf>>
  /\ UNCHANGED nameVars

\* The callback of setTimeout(..., 100): generatePdf with the images and
\* settings of the render that set the timer, an alert when it throws, and
\* setIsProcessing(false).
TimerCallback ==
  /\ timers # << >>
  /\ LET t == Head(timers)
         r == GeneratePdf(t.images, t.settings)
     IN  pdf' = r
  /\ timers' = Tail(timers)
  /\ isProcessing' = FALSE
  /\ UNCHANGED <<images, settings, pendingLoad, created, exports, edits>>
  /\ UNCHANGED nameVars

\* reader.onloadend of the FileReader that the effect on [images] started
\* on images[0].file: setFirstImageBase64(reader.result).
ReaderLoadEnd ==
  /\ Len(images) > 0
  /\ firstImageBase64 # images[1].id
  /\ firstImageBase64' = images[1].id
  /\ UNCHANGED <<images, settings, isProcessing, pendingLoad, created,
                 timers, exports, edits, pdf, isGeneratingName,
                 nameRequests>>

\* handleAutoName up to its await: the button is disabled without
\* firstImageBase64 and while isGeneratingName.  The continuation keeps the
\* settings prop of the render it was created in.
HandleAutoName ==
  /\ firstImageBase64 # 0
  /\ ~isGeneratingName
  /\ isGeneratingName' = TRUE
  /\ nameRequests' = Append(nameRequests, [settings |-> settings])
  /\ UNCHANGED <<images, settings, isProcessing, pendingLoad, created,
                 timers, exports, edits, pdf, firstImageBase64>>

\* What generateSmartFilename resolves to: "document.pdf" for an empty
\* answer, otherwise the cleaned answer of the service.
SmartFilenames == {"document.pdf", "invoice_scan.pdf"}

\* `scan_${new Date().toISOString().slice(0,10)}.pdf`
FallbackFilename == "scan_2026-11-05.pdf"

\* updateField('filename', value) as the continuation of handleAutoName
\* calls it: { ...settings, filename: value } over the settings it holds.
UpdateFilename(held, value) == [held EXCEPT !.filename = value]

\* The awaited generateSmartFilename resolves with name: updateField and
\* the finally block.
NameResolved(name) ==
  /\ nameRequests # << >>
  /\ settings' = UpdateFilename(Head(nameRequests).settings, name)
  /\ nameRequests' = Tail(nameRequests)
  /\ isGeneratingName' = FALSE
  /\ UNCHANGED <<images, isProcessing, pendingLoad, created, timers, exports,
                 edits, pdf, firstImageBase64>>

\* The awaited generateSmartFilename rejects (no API key, network or
\* service error): the catch block sets the fallback name, then the
\* finally block.
NameRejected ==
  /\ nameRequests # << >>
  /\ settings' = UpdateFilename(Head(nameRequests).settings, FallbackFilename)
  /\ nameRequests' = Tail(nameRequests)
  /\ isGeneratingName' = FALSE
  /\ UNCHANGED <<images, isProcessing, pendingLoad, created, timers, exports,
                 edits, pdf, firstImageBase64>>

Init ==
  /\ images = << >>
  /\ settings = DEFAULT_SETTINGS
  /\ isProcessing = FALSE
  /\ pendingLoad = {}
  /\ created = 0
  /\ timers = << >>
  /\ exports = 0
  /\ edits = 0
  /\ pdf = NoPdf
  /\ firstImageBase64 = 0
  /\ isGeneratingName = FALSE
  /\ nameRequests = << >>

Next ==
  \/ \E files \in SeqsUpTo(AppFiles, MaxUploads) : HandleFiles(files)
  \/ \E id \in 1..MaxUploads : OnLoad(id)
  \/ \E id \in 1..MaxUploads : RemoveImage(id)
  \/ \E index \in 0..(MaxUploads - 1), direction \in {"left", "right"} :
       MoveImage(index, direction)
  \/ \E key \in {"pageSize", "orientation", "imageFit", "margin"} :
       \E value \in FieldValues(key) : UpdateField(key, value)
  \/ HandleDownload
  \/ TimerCallback

Spec == Init /\ [][Next]_vars

(* ----------------- generatePdf on one image: LayoutSpec ---------------- *)
\* The pixel sizes of LayoutSpec's image: every size up to MaxDim x MaxDim,
\* the 3000 x 2000 image of the specification's example, and 0 x 0 (an image
\* whose onload has not fired).
LayoutDims ==
  ((1..MaxDim) \X (1..MaxDim)) \cup {<<3000, 2000>>, <<0, 0>>}

LayoutSettings ==
  [pageSize : PageSizes, orientation : PageOrientations,
   margin : MinMargin..MaxMargin, imageFit : ImageFits,
   filename : {DEFAULT_SETTINGS.filename}]

\* The App just after Export was clicked with one image in the list.
InitLayout ==
  \E dims \in LayoutDims, type \in {"image/jpeg", "image/png"},
     s \in LayoutSettings :
    LET img == [id |-> 1,
                file |-> [type |-> type,
                          width |-> IF dims[1] = 0 THEN 1 ELSE dims[1],
                          height |-> IF dims[2] = 0 THEN 1 ELSE dims[2]],
                width |-> dims[1], height |-> dims[2], type |-> type]
    IN  /\ images = <<img>>
        /\ settings = s
        /\ isProcessing = TRUE
        /\ pendingLoad = IF dims[1] = 0 THEN {1} ELSE {}
        /\ created = 1
        /\ timers = <<[images |-> <<img>>, settings |-> s]>>
        /\ exports = 1
        /\ edits = 0
        /\ pdf = NoPdf
        /\ firstImageBase64 = 0
        /\ isGeneratingName = FALSE
        /\ nameRequests = << >>

NextLayout == TimerCallback

LayoutSpec == InitLayout /\ [][NextLayout]_vars

(* --------------- generatePdf on drawn image lists: PdfSpec ------------- *)
\* generatePdf is an exported function: PdfSpec calls it on every list of
\* 0..MaxPages images (portrait, landscape, or 0 x 0 because not yet
\* probed) and on every setting of page size, orientation and image fit.
PdfDims == {<<1, 2>>, <<2, 1>>, <<0, 0>>}

PdfSettings ==
  [pageSize : PageSizes, orientation : PageOrientations,
   margin : {MinMargin, MaxMargin}, imageFit : ImageFits,
   filename : {DEFAULT_SETTINGS.filename, ""}]

\* The image list with the given pixel sizes, ids 1, 2, ...
PdfImages(dims) ==
  [k \in 1..Len(dims) |->
     [id |-> k,
      file |-> [type |-> "image/jpeg",
                width |-> IF dims[k][1] = 0 THEN 1 ELSE dims[k][1],
                height |-> IF dims[k][2] = 0 THEN 1 ELSE dims[k][2]],
      width |-> dims[k][1], height |-> dims[k][2], type |-> "image/jpeg"]]

\* A call generatePdf(imgs, s) is about to be made.
InitPdf ==
  \E n \in 0..MaxPages :
    \E dims \in [1..n -> PdfDims], s \in PdfSettings :
      LET imgs == PdfImages(dims)
      IN  /\ images = imgs
          /\ settings = s
          /\ isProcessing = TRUE
          /\ pendingLoad = {k \in 1..n : dims[k][1] = 0}
          /\ created = n
          /\ timers = <<[images |-> imgs, settings |-> s]>>
          /\ exports = 1
          /\ edits = 0
          /\ pdf = NoPdf
          /\ firstImageBase64 = 0
          /\ isGeneratingName = FALSE
          /\ nameRequests = << >>

NextPdf == TimerCallback

PdfSpec == InitPdf /\ [][NextPdf]_vars

(* ------------- the file name assistant: NameSpec ----------------------- *)
\* The App with its images uploaded and probed, the FileReader of the first
\* image still running: the user changes settings and asks for a file name.
NameFiles == {f \in AppFiles : f.type \in ValidImageTypes}

InitName ==
  \E files \in SeqsUpTo(NameFiles, MaxUploads) :
    /\ images = [k \in 1..Len(files) |->
                   [id |-> k, file |-> files[k], width |-> files[k].width,
                    height |-> files[k].height, type |-> files[k].type]]
    /\ settings = DEFAULT_SETTINGS
    /\ isProcessing = FALSE
    /\ pendingLoad = {}
    /\ created = Len(files)
    /\ timers = << >>
    /\ exports = 0
    /\ edits = 0
    /\ pdf = NoPdf
    /\ firstImageBase64 = 0
    /\ isGeneratingName = FALSE
    /\ nameRequests = << >>

NextName ==
  \/ ReaderLoadEnd
  \/ HandleAutoName
  \/ \E name \in SmartFilenames : NameResolved(name)
  \/ NameRejected
  \/ \E key \in {"pageSize", "orientation", "imageFit", "margin"} :
       \E value \in FieldValues(key) : UpdateField(key, value)

NameSpec == InitName /\ [][NextName]_vars

(* ---------------- the image list alone: ListSpec ----------------------- *)
\* The App restricted to the handlers that change the image list.
NextList ==
  \/ \E files \in SeqsUpTo(AppFiles, MaxUploads) : HandleFiles(files)
  \/ \E id \in 1..MaxUploads : OnLoad(id)
  \/ \E id \in 1..MaxUploads : RemoveImage(id)
  \/ \E index \in 0..(MaxUploads - 1), direction \in {"left", "right"} :
       MoveImage(index, direction)

ListSpec == Init /\ [][NextList]_vars

(* ------------------------------ properties ---------------------------- *)
RAbs(a) == IF IsNaN(a) THEN NaN ELSE [n |-> Abs(a.n), d |-> a.d]
RGe(a, b) == ~IsNaN(a) /\ ~IsNaN(b) /\
             LET c == OverCommon(a, b) IN c.an >= c.bn
RLe(a, b) == RGe(b, a)
REq(a, b) == ~IsNaN(a) /\ ~IsNaN(b) /\ a = b

\* The pages generatePdf laid out in its last call: 1..Len(pdf.layouts).
\* Page k belongs to pdf.images[k].
LaidOut == IF pdf.called THEN 1..Len(pdf.layouts) ELSE {}

Probed(img) == img.width > 0 /\ img.height > 0

StandardSize(s) == s.pageSize \in {"A4", "LETTER"}

\* The rectangle handed to addImage for page k, as drawn in the document.
DrawnRect(k) ==
  LET d == pdf.doc.pages[k].images[1]
  IN  [x |-> d.x, y |-> d.y, w |-> d.w, h |-> d.h]

LayoutRect(k) ==
  LET l == pdf.layouts[k]
  IN  [x |-> l.imageX, y |-> l.imageY, w |-> l.imageWidthMm,
       h |-> l.imageHeightMm]

\* C3: for page size A4 or LETTER and an image with positive dimensions,
\* the resolved orientation is landscape iff (orientation is AUTO and
\* pixelWidth > pixelHeight) or orientation is LANDSCAPE; the computed page
\* is 210 x 297 (A4) or 215.9 x 279.4 (LETTER) in portrait and the swapped
\* size in landscape; a 3000 x 2000 image on A4 with AUTO gives 297 x 210.
C3_StandardPage ==
  \A k \in LaidOut :
    LET img == pdf.images[k]
        s == pdf.settings
        l == pdf.layouts[k]
        landscape == \/ s.orientation = "auto" /\ img.width > img.height
                     \/ s.orientation = "l"
        short == IF s.pageSize = "A4" THEN Num(210) ELSE Frac(2159, 10)
        long == IF s.pageSize = "A4" THEN Num(297) ELSE Frac(2794, 10)
    IN  (StandardSize(s) /\ Probed(img)) =>
          /\ (l.orientation = "l") <=> landscape
          /\ l.orientation \in {"p", "l"}
          /\ landscape => l.pageWidthMm = long /\ l.pageHeightMm = short
          /\ ~landscape => l.pageWidthMm = short /\ l.pageHeightMm = long
          /\ (s.pageSize = "A4" /\ s.orientation = "auto"
                /\ img.width = 3000 /\ img.height = 2000) =>
               l.pageWidthMm = Num(297) /\ l.pageHeightMm = Num(210)

\* C3 witness: the 3000 x 2000 image laid out on A4 under AUTO.
C3_Witness ==
  /\ pdf.called /\ Len(pdf.layouts) = 1
  /\ pdf.settings.pageSize = "A4" /\ pdf.settings.orientation = "auto"
  /\ pdf.images[1].width = 3000 /\ pdf.images[1].height = 2000
  /\ pdf.layouts[1].pageWidthMm = Num(297)

\* C4: for page size FIT_IMAGE and an image with positive dimensions, the
\* computed page width is pixelWidth x 25.4/96 and the page height is
\* pixelHeight x 25.4/96, each within 1e-6 mm.
C4_FitPageIsExactAt96Dpi ==
  \A k \in LaidOut :
    LET img == pdf.images[k]
        l == pdf.layouts[k]
        exactW == RMul(Num(img.width), Frac(254, 960))
        exactH == RMul(Num(img.height), Frac(254, 960))
        tol == Frac(1, 1000000)
    IN  (pdf.settings.pageSize = "FIT_IMAGE" /\ Probed(img)) =>
          /\ RLe(RAbs(RSub(l.pageWidthMm, exactW)), tol)
          /\ RLe(RAbs(RSub(l.pageHeightMm, exactH)), tol)

\* C5: for page size FIT_IMAGE, whatever the margin and imageFit, the image
\* rectangle is the full computed page: x = 0, y = 0, width = pageWidth,
\* height = pageHeight; it is the rectangle drawn.
C5_FitRectIsFullPage ==
  \A k \in LaidOut :
    LET l == pdf.layouts[k]
    IN  pdf.settings.pageSize = "FIT_IMAGE" =>
          /\ l.imageX = Num(0) /\ l.imageY = Num(0)
          /\ l.imageWidthMm = l.pageWidthMm
          /\ l.imageHeightMm = l.pageHeightMm
          /\ l.pageWidthMm = RMul(Num(pdf.images[k].width), pxToMm)
          /\ l.pageHeightMm = RMul(Num(pdf.images[k].height), pxToMm)
          /\ ~pdf.threw /\ DrawnRect(k) = LayoutRect(k)

C5_Witness ==
  /\ pdf.called /\ Len(pdf.layouts) = 1
  /\ pdf.settings.pageSize = "FIT_IMAGE"
  /\ pdf.settings.margin = MaxMargin /\ pdf.settings.imageFit = "CONTAIN"
  /\ Probed(pdf.images[1])
  /\ pdf.layouts[1].imageWidthMm = pdf.layouts[1].pageWidthMm

\* The space left of, right of, above and below the rectangle of page k
\* inside the drawable area of the computed page.
Leftover(k) ==
  LET l == pdf.layouts[k]
      m == Num(pdf.settings.margin)
  IN  [left |-> RSub(l.imageX, m),
       right |-> RSub(RSub(l.pageWidthMm, m), RAdd(l.imageX, l.imageWidthMm)),
       top |-> RSub(l.imageY, m),
       bottom |-> RSub(RSub(l.pageHeightMm, m),
                       RAdd(l.imageY, l.imageHeightMm))]

ContainCase(k) ==
  /\ StandardSize(pdf.settings)
  /\ pdf.settings.imageFit = "CONTAIN"
  /\ Probed(pdf.images[k])

\* The rectangle of page k keeps the image's aspect ratio and lies inside
\* the drawable area.
ContainKeepsRatioInside(k) ==
  LET l == pdf.layouts[k]
      img == pdf.images[k]
      lo == Leftover(k)
  IN  /\ REq(RDiv(l.imageWidthMm, l.imageHeightMm),
             RDiv(Num(img.width), Num(img.height)))
      /\ RGt(l.imageWidthMm, Num(0)) /\ RGt(l.imageHeightMm, Num(0))
      /\ RGe(lo.left, Num(0)) /\ RGe(lo.right, Num(0))
      /\ RGe(lo.top, Num(0)) /\ RGe(lo.bottom, Num(0))

\* C6 as claimed: under CONTAIN on A4 or LETTER the rectangle keeps the
\* image's aspect ratio, lies inside the drawable area, and has symmetric
\* leftover space on exactly one axis while spanning the other axis fully.
C6_ContainExactlyOneAxis ==
  \A k \in LaidOut :
    LET lo == Leftover(k)
    IN  ContainCase(k) =>
          /\ ContainKeepsRatioInside(k)
          /\ \/ /\ lo.left = lo.right /\ RGt(lo.left, Num(0))
                /\ lo.top = Num(0) /\ lo.bottom = Num(0)
             \/ /\ lo.top = lo.bottom /\ RGt(lo.top, Num(0))
                /\ lo.left = Num(0) /\ lo.right = Num(0)

\* C6 as amended: under CONTAIN on A4 or LETTER the rectangle keeps the
\* image's aspect ratio, lies inside the drawable area, spans one axis of
\* the drawable area fully and is centred on the other (equal space on
\* both sides); that space is zero, so that no axis has leftover space,
\* exactly when pixelWidth/pixelHeight equals the drawable area's ratio.
C6_ContainAtMostOneAxis ==
  \A k \in LaidOut :
    LET lo == Leftover(k)
        l == pdf.layouts[k]
        img == pdf.images[k]
        m == Num(pdf.settings.margin)
        areaRatio == RDiv(RSub(l.pageWidthMm, RMul(m, Num(2))),
                          RSub(l.pageHeightMm, RMul(m, Num(2))))
        tie == areaRatio = RDiv(Num(img.width), Num(img.height))
    IN  ContainCase(k) =>
          /\ ContainKeepsRatioInside(k)
          /\ ~pdf.threw /\ DrawnRect(k) = LayoutRect(k)
          /\ \/ /\ lo.left = lo.right
                /\ lo.top = Num(0) /\ lo.bottom = Num(0)
             \/ /\ lo.top = lo.bottom
                /\ lo.left = Num(0) /\ lo.right = Num(0)
          /\ tie <=> (lo.left = Num(0) /\ lo.top = Num(0))

\* C6 witness: a CONTAIN layout with space left above and below.
C6_Witness ==
  /\ pdf.called /\ Len(pdf.layouts) = 1 /\ ContainCase(1)
  /\ RGt(Leftover(1).top, Num(0))
  /\ Leftover(1).top = Leftover(1).bottom
  /\ Leftover(1).left = Num(0)

\* C7: under FILL on A4 or LETTER, for every image and margin, the image
\* rectangle is the drawable area of the computed page: x = margin,
\* y = margin, width = pageWidth - 2 x margin, height = pageHeight -
\* 2 x margin; it is the rectangle drawn.
C7_FillIsDrawableArea ==
  \A k \in LaidOut :
    LET l == pdf.layouts[k]
        m == pdf.settings.margin
    IN  (StandardSize(pdf.settings) /\ pdf.settings.imageFit = "FILL") =>
          /\ l.imageX = Num(m) /\ l.imageY = Num(m)
          /\ l.imageWidthMm = RSub(l.pageWidthMm, Num(2 * m))
          /\ l.imageHeightMm = RSub(l.pageHeightMm, Num(2 * m))
          /\ ~pdf.threw /\ DrawnRect(k) = LayoutRect(k)

C7_Witness ==
  /\ pdf.called /\ Len(pdf.layouts) = 1
  /\ pdf.settings.pageSize = "LETTER" /\ pdf.settings.imageFit = "FILL"
  /\ pdf.settings.margin = 50
  /\ pdf.images[1].width = 1 /\ pdf.images[1].height = MaxDim
  /\ pdf.layouts[1].imageWidthMm = Frac(1159, 10)

(* ------------------- properties of the document ----------------------- *)
\* The images drawn on all pages of the document of the last call.
RECURSIVE DrawnCount(_)
DrawnCount(pages) ==
  IF pages = << >> THEN 0
  ELSE Len(Head(pages).images) + DrawnCount(Tail(pages))

\* Page k of the document carries exactly the k-th image of the input.
PageCarries(k) ==
  /\ k <= Len(pdf.doc.pages)
  /\ Len(pdf.doc.pages[k].images) = 1
  /\ pdf.doc.pages[k].images[1].src = pdf.images[k].id

\* C1: for every non-empty list of n images and every settings value,
\* generatePdf ends with a document of exactly n pages and exactly n drawn
\* images, and for every k the k-th page carries the k-th image.
C1_OnePagePerImage ==
  (pdf.called /\ Len(pdf.images) > 0) =>
    /\ Len(pdf.doc.pages) = Len(pdf.images)
    /\ DrawnCount(pdf.doc.pages) = Len(pdf.images)
    /\ \A k \in 1..Len(pdf.images) : PageCarries(k)

\* What does hold of the code: the property of C1 for every list whose
\* images all have positive dimensions.
OnePagePerProbedImage ==
  (\A k \in 1..Len(pdf.images) : Probed(pdf.images[k])) => C1_OnePagePerImage

\* C2: for every page k, the first included, the physical page of the
\* document has the width, height and orientation computed for image k.
\* Stated for the calls that complete on images with positive dimensions.
C2_PhysicalPageIsComputedPage ==
  (/\ pdf.called /\ ~pdf.threw
   /\ \A k \in 1..Len(pdf.images) : Probed(pdf.images[k])) =>
    \A k \in 1..Len(pdf.images) :
      /\ k <= Len(pdf.doc.pages)
      /\ pdf.doc.pages[k].width = pdf.layouts[k].pageWidthMm
      /\ pdf.doc.pages[k].height = pdf.layouts[k].pageHeightMm
      /\ pdf.doc.pages[k].orientation = pdf.layouts[k].orientation

\* C8: generatePdf fails, drawing nothing and saving no file, whenever an
\* image of the input list has pixel width <= 0 or pixel height <= 0.
C8_InvalidDimensionFails ==
  (/\ pdf.called
   /\ \E k \in 1..Len(pdf.images) : ~Probed(pdf.images[k])) =>
    /\ pdf.threw
    /\ ~pdf.saved
    /\ DrawnCount(pdf.doc.pages) = 0

\* C9: generatePdf is never invoked with an image whose width or height
\* is still 0.
C9_OnlyProbedImagesSubmitted ==
  pdf.called => \A k \in 1..Len(pdf.images) : Probed(pdf.images[k])

\* C10: every image that reaches addImage is JPEG or PNG, and the format
\* label passed with it matches the image's type.
C10_OnlyJpegPngReachWriter ==
  pdf.called =>
    \A k \in 1..Len(pdf.doc.pages) :
      \A j \in 1..Len(pdf.doc.pages[k].images) :
        LET d == pdf.doc.pages[k].images[j]
        IN  /\ d.type \in {"image/jpeg", "image/jpg", "image/png"}
            /\ (d.label = "PNG") <=> (d.type = "image/png")
            /\ (d.label = "JPEG") <=> (d.type \in {"image/jpeg", "image/jpg"})

(* ----------------------- further properties --------------------------- *)
\* C11: generatePdf called with an empty image list is a no-op: it
\* completes without raising an error, creates no page, draws no image
\* and saves no file.
C11_EmptyListIsNoOp ==
  (pdf.called /\ Len(pdf.images) = 0) =>
    /\ ~pdf.threw
    /\ ~pdf.saved
    /\ Len(pdf.doc.pages) = 0
    /\ DrawnCount(pdf.doc.pages) = 0
    /\ pdf.layouts = << >>

C11_Witness ==
  /\ pdf.called /\ Len(pdf.images) = 0 /\ timers = << >> /\ ~pdf.saved

\* C12: for every margin in 0..50, page size A4 or LETTER in either
\* orientation, every imageFit and every image with positive dimensions,
\* the width and the height of the image rectangle are never negative; at
\* margin 50 on A4 portrait the drawable area is 110 x 197: FILL draws
\* exactly that rectangle and CONTAIN a rectangle inside it.
C12_RectNeverNegative ==
  \A k \in LaidOut :
    LET l == pdf.layouts[k]
        s == pdf.settings
    IN  (StandardSize(s) /\ Probed(pdf.images[k])
           /\ s.margin \in MinMargin..MaxMargin) =>
          /\ RGe(l.imageWidthMm, Num(0))
          /\ RGe(l.imageHeightMm, Num(0))
          /\ (s.pageSize = "A4" /\ s.margin = 50 /\ l.orientation = "p") =>
               /\ l.pageWidthMm = Num(210) /\ l.pageHeightMm = Num(297)
               /\ RLe(l.imageWidthMm, Num(110))
               /\ RLe(l.imageHeightMm, Num(197))
               /\ (s.imageFit = "FILL") =>
                    /\ l.imageWidthMm = Num(110)
                    /\ l.imageHeightMm = Num(197)

C12_Witness ==
  /\ pdf.called /\ Len(pdf.layouts) = 1
  /\ pdf.settings.pageSize = "A4" /\ pdf.settings.margin = 50
  /\ pdf.settings.orientation = "p" /\ pdf.settings.imageFit = "FILL"
  /\ Probed(pdf.images[1])
  /\ pdf.layouts[1].imageWidthMm = Num(110)
  /\ pdf.layouts[1].imageHeightMm = Num(197)

\* C13: for page size FIT_IMAGE, for every page (first or later) and
\* every orientation setting, the orientation passed to the PDF writer is
\* landscape if and only if the converted page width exceeds the converted
\* page height, and the computed pageWidth and pageHeight are the image's
\* converted width and height, never swapped.
C13_FitOrientationFollowsPage ==
  (pdf.called /\ pdf.settings.pageSize = "FIT_IMAGE") =>
    \A k \in 1..Len(pdf.doc.pages) :
      LET img == pdf.images[k]
          l == pdf.layouts[k]
      IN  Probed(img) =>
            /\ l.pageWidthMm = RMul(Num(img.width), pxToMm)
            /\ l.pageHeightMm = RMul(Num(img.height), pxToMm)
            /\ (pdf.doc.pages[k].orientation = "l"
                  <=> RGt(l.pageWidthMm, l.pageHeightMm))

\* C14: when a file name request started by handleAutoName completes,
\* with a name or with the fallback, only the filename field of the
\* settings changes: pageSize, orientation, margin and imageFit keep the
\* values they had immediately before the completion, including values
\* changed through updateField while the request was in flight.
C14_CompletionChangesOnlyFilename ==
  [][(isGeneratingName /\ ~isGeneratingName') =>
       /\ settings'.pageSize = settings.pageSize
       /\ settings'.orientation = settings.orientation
       /\ settings'.margin = settings.margin
       /\ settings'.imageFit = settings.imageFit]_vars

\* The ids of a list, and a list without two entries of the same id.
IdsOf(imgs) == {imgs[k].id : k \in 1..Len(imgs)}

NoDuplicate(imgs) ==
  \A j, k \in 1..Len(imgs) : j # k => imgs[j].id # imgs[k].id

\* new is old with the entries at positions a and b exchanged.
IsSwap(old, new, a, b) ==
  /\ Len(new) = Len(old)
  /\ new[a] = old[b] /\ new[b] = old[a]
  /\ \A k \in 1..Len(old) : k \notin {a, b} => new[k] = old[k]

\* new is old without its entry of this id, the others in their order.
IsRemoval(old, new, id) ==
  \E k \in 1..Len(old) :
    /\ old[k].id = id
    /\ Len(new) = Len(old) - 1
    /\ \A j \in 1..(k - 1) : new[j] = old[j]
    /\ \A j \in k..Len(new) : new[j] = old[j + 1]

====
